---- MODULE Spec2Model ----
(***************************************************************************)
(* Model of plottools/styles.py: the style generators make_linestyles,     *)
(* make_pointstyles, make_linepointstyles, make_fillstyles and plot_styles *)
(* acting on one namespace.                                                *)
(*                                                                         *)
(* A namespace is a map from attribute names to values.  Every Python dict *)
(* (a style record or a category mapping) is an object on a heap, so that  *)
(* two references to the same dict stay the same dict when it is changed   *)
(* through one of them.  A value is tagged by its only field: [s |-> ..]   *)
(* a string, [n |-> ..] a number, [ref |-> id] a dict on the heap,         *)
(* [list |-> ..] a tuple or list, [none |-> TRUE] None.                    *)
(***************************************************************************)
EXTENDS Integers, Sequences, FiniteSets, TLC

VARIABLES ns,     \* the namespace: attribute name -> value
          heap,   \* the dicts: heap[id] is a map from keys to values
          last,   \* the last call: operation, arguments, outcome
          passed, \* the names passed to the calls so far, with the call's outcome
          cats,   \* the category keys prefix+suffix the calls so far have used
          ncalls, \* number of calls made so far
          ns2,      \* a second, independent namespace (its dicts are on the same heap)
          rcParams, \* mpl.rcParams, the process-wide rendering configuration
          shown,    \* what demo() has printed, plotted and shown
          procs     \* the generator calls in progress when calls are interleaved

vars == <<ns, heap, last, passed, cats, ncalls, ns2, rcParams, shown, procs>>

\* ---------------------------------------------------------------- bounds
MaxCalls == 2     \* calls on the namespace in one behaviour
MaxLen == 2       \* longest argument sequence

\* ---------------------------------------------------------------- values
None == [none |-> TRUE]
Str(x) == [s |-> x]
Num(x) == [n |-> x]
Ref(i) == [ref |-> i]
List(q) == [list |-> q]

\* isinstance(x, (tuple, list))
IsList(x) == DOMAIN x = {"list"}
IsRef(x) == DOMAIN x = {"ref"}
IsStr(x) == DOMAIN x = {"s"}
IsNum(x) == DOMAIN x = {"n"}

\* d[k] = v on a map
Put(f, k, v) == (k :> v) @@ f

EmptyDict == <<>>

White == "#FFFFFF"
Black == "#000000"
Red == "#FF0000"
Blue == "#0000FF"

\* colors.lighter(color, lightness) at the three documented points
lighter(c, f) ==
    IF f.n = 0 THEN Str(White)
    ELSE IF f.n = 1 THEN c
    ELSE Str(Black)

\* ------------------------------------------------------- call state
\* The running state of a call: namespace, heap, the exception raised ("" when
\* none), the records built so far and the generator calls entered so far.
Raise(st, e) == [st EXCEPT !.err = e]

\* (mutant) an index past the end wraps around instead of failing
ItemWrapped(x, k) ==
    IF IsList(x) /\ x.list # <<>>
    THEN [ok |-> TRUE, v |-> x.list[(k % Len(x.list)) + 1]]
    ELSE [ok |-> TRUE, v |-> x]

\* x[k] for a list x, x itself otherwise; k counts from 0
Item(x, k) ==
    IF IsList(x)
    THEN IF k < Len(x.list) THEN [ok |-> TRUE, v |-> x.list[k + 1]]
                            ELSE [ok |-> FALSE, v |-> None]
    ELSE [ok |-> TRUE, v |-> x]

\* str(i) for a positive integer
Digits == <<"0", "1", "2", "3", "4", "5", "6", "7", "8", "9">>
RECURSIVE Dec(_)
Dec(i) == IF i < 10 THEN Digits[i + 1] ELSE Dec(i \div 10) \o Digits[(i % 10) + 1]

\* A string argument is kept as its pieces: literal text and "%d" conversions.
RECURSIVE Join(_)
Join(q) == IF q = <<>> THEN "" ELSE Head(q) \o Join(Tail(q))

\* '%' in names
HasPercent(q) == \E i \in 1..Len(q) : q[i] = "%d"

\* (mutant) the placeholder is filled with the index counted from 0
FormatFromZero(q, i) ==
    Join([j \in 1..Len(q) |-> IF q[j] = "%d" THEN Dec(i - 1) ELSE q[j]])

\* names % (k+1)
Format(q, i) == Join([j \in 1..Len(q) |-> IF q[j] = "%d" THEN Dec(i) ELSE q[j]])

\* lines 146-152: the name of style k
NameAt(names, k) ==
    IF IsList(names)
    THEN Item(names, k)
    ELSE IF HasPercent(names.str)
         THEN [ok |-> TRUE, v |-> Format(names.str, k + 1)]
         ELSE [ok |-> TRUE, v |-> Join(names.str)]

\* (mutant) only the length of names is counted
StyleCountOfNames(xs, n) == IF IsList(xs[1]) THEN Len(xs[1].list) ELSE n

\* lines 140-143: number of styles to be generated
RECURSIVE StyleCount(_, _)
StyleCount(xs, n) ==
    IF xs = <<>> THEN n
    ELSE LET x == Head(xs)
         IN StyleCount(Tail(xs), IF IsList(x) /\ Len(x.list) > n THEN Len(x.list) ELSE n)

\* (mutant) every call starts from an empty list of names
EnsureStyleNamesReset(st) == [st EXCEPT !.ns = Put(st.ns, "style_names", List(<<>>))]

\* lines 134-135: if not hasattr(namespace, 'style_names'): namespace.style_names = []
EnsureStyleNames(st) ==
    IF "style_names" \in DOMAIN st.ns THEN st
    ELSE [st EXCEPT !.ns = Put(st.ns, "style_names", List(<<>>))]

\* lines 136-138: if not hasattr(namespace, ln): setattr(namespace, ln, {})
EnsureCategory(st, ln) ==
    IF ln \in DOMAIN st.ns THEN st
    ELSE [st EXCEPT !.heap = Append(st.heap, EmptyDict),
                    !.ns = Put(st.ns, ln, Ref(Len(st.heap) + 1))]

InList(x, q) == \E i \in 1..Len(q) : q[i] = x

\* (mutant) the name is appended without the membership test
AppendNameAlways(st, name) ==
    [st EXCEPT !.ns["style_names"] = List(Append(st.ns["style_names"].list, name))]

\* (mutant) the name is not appended
AppendNameNever(st, name) == st

\* lines 153-154: if name not in namespace.style_names: append(name)
AppendName(st, name) ==
    IF InList(name, st.ns["style_names"].list) THEN st
    ELSE [st EXCEPT !.ns["style_names"] = List(Append(st.ns["style_names"].list, name))]

\* (mutant) the record is bound to the attribute only, not entered in the category
RegisterAttrOnly(st, sn, ln, name, d, kind, k) ==
    [st EXCEPT !.ns = Put(st.ns, sn, Ref(Len(st.heap) + 1)),
               !.heap = Append(st.heap, d),
               !.gen = Append(st.gen, [id |-> Len(st.heap) + 1, k |-> k, kind |-> kind,
                                       cat |-> ln, name |-> name, key |-> sn,
                                       call |-> Len(st.sub)])]

\* (mutant) a key or a category entry that exists keeps its record
RegisterKeepFirst(st, sn, ln, name, d, kind, k) ==
    LET id == Len(st.heap) + 1
        ns1 == IF sn \in DOMAIN st.ns THEN st.ns ELSE Put(st.ns, sn, Ref(id))
        h1 == Append(st.heap, d)
        t == ns1[ln].ref
    IN [st EXCEPT !.ns = ns1,
                  !.heap = IF name \in DOMAIN h1[t] THEN h1
                           ELSE [h1 EXCEPT ![t] = Put(h1[t], name, Ref(id))],
                  !.gen = Append(st.gen, [id |-> id, k |-> k, kind |-> kind,
                                          cat |-> ln, name |-> name, key |-> sn,
                                          call |-> Len(st.sub)])]

\* lines 159-161: ld = dict(...); setattr(namespace, sn, ld);
\* getattr(namespace, ln)[name] = ld
Register(st, sn, ln, name, d, kind, k) ==
    LET id == Len(st.heap) + 1
        ns1 == Put(st.ns, sn, Ref(id))
        h1 == Append(st.heap, d)
        t == ns1[ln].ref
    IN [st EXCEPT !.ns = ns1,
                  !.heap = [h1 EXCEPT ![t] = Put(h1[t], name, Ref(id))],
                  !.gen = Append(st.gen, [id |-> id, k |-> k, kind |-> kind,
                                          cat |-> ln, name |-> name, key |-> sn,
                                          call |-> Len(st.sub)])]

\* dict(fixed..., **kwargs)
Merge(d, kwargs) == kwargs @@ d

\* ------------------------------------------------------ make_linestyles
\* line 159
LineDict(c, ds, lw, kwargs) ==
    Merge([color |-> c, linestyle |-> ds, linewidth |-> lw], kwargs)

\* lines 146-161: the body of the loop for index k
LineStep(st, a, k) ==
    LET nm == NameAt(a.names, k)
    IN IF ~nm.ok THEN Raise(st, "IndexError")
       ELSE LET st1 == AppendName(st, nm.v)
                c == Item(a.colors, k)
                ds == Item(a.dashes, k)
                lw == Item(a.lws, k)
            IN IF ~(c.ok /\ ds.ok /\ lw.ok) THEN Raise(st1, "IndexError")
               ELSE Register(st1, a.prefix \o nm.v \o a.suffix, a.prefix \o a.suffix,
                             nm.v, LineDict(c.v, ds.v, lw.v, a.kwargs), "line", k)

RECURSIVE LineLoop(_, _, _, _)
LineLoop(st, a, k, n) ==
    IF k >= n \/ st.err # "" THEN st
    ELSE LineLoop(LineStep(st, a, k), a, k + 1, n)

LineCount(a) == StyleCount(<<a.names, a.colors, a.dashes, a.lws>>, 1)

\* Entering a generator: what it was called with and the n it computed.
Enter(st, op, a, n) ==
    [st EXCEPT !.sub = Append(st.sub, [op |-> op, a |-> a, n |-> n])]

make_linestyles(st, a) ==
    LET st1 == EnsureCategory(EnsureStyleNames(st), a.prefix \o a.suffix)
        n == LineCount(a)
    IN LineLoop(Enter(st1, "line", a, n), a, 0, n)

\* ----------------------------------------------------- make_pointstyles
\* x[i] for a marker x: a pair (symbol, factor), or, when a bare pair was
\* passed as markers, one of its elements: a one-character symbol or a number.
Sub(x, i) ==
    IF IsList(x) THEN IF i < Len(x.list) THEN [err |-> "", v |-> x.list[i + 1]]
                                         ELSE [err |-> "IndexError", v |-> None]
    ELSE IF IsStr(x) THEN IF i = 0 THEN [err |-> "", v |-> x]
                                   ELSE [err |-> "IndexError", v |-> None]
    ELSE [err |-> "TypeError", v |-> None]

\* line 263: mk = markers[k] if len(markers) > 1 else markers[0]
MarkerAt(markers, k) ==
    IF Len(markers.list) > 1 THEN Item(markers, k) ELSE Item(markers, 0)

\* lines 260-266: the attributes of style k
PointItems(a, k) ==
    [c |-> Item(a.colors, k), ds |-> Item(a.dashes, k), lw |-> Item(a.lws, k),
     mk |-> MarkerAt(a.markers, k), ms |-> Item(a.markersizes, k),
     mc |-> Item(a.markeredgecolors, k), mw |-> Item(a.markeredgewidths, k)]

\* (mutant) the edge color is the face color whatever the lightness
PointDictPlainEdge(c, ds, lw, sym, fac, ms, mc, mw, kwargs) ==
    Merge([color |-> c, linestyle |-> ds, linewidth |-> lw, marker |-> sym,
           markersize |-> Num(fac.n * ms.n), markeredgecolor |-> c,
           markeredgewidth |-> mw], kwargs)

\* lines 267-268
PointDict(c, ds, lw, sym, fac, ms, mc, mw, kwargs) ==
    Merge([color |-> c, linestyle |-> ds, linewidth |-> lw, marker |-> sym,
           markersize |-> Num(fac.n * ms.n), markeredgecolor |-> lighter(c, mc),
           markeredgewidth |-> mw], kwargs)

\* lines 250-270: the body of the loop for index k
PointStep(st, a, k) ==
    LET nm == NameAt(a.names, k)
    IN IF ~nm.ok THEN Raise(st, "IndexError")
       ELSE LET st1 == AppendName(st, nm.v)
                x == PointItems(a, k)
            IN IF ~(x.c.ok /\ x.ds.ok /\ x.lw.ok /\ x.mk.ok /\ x.ms.ok /\ x.mc.ok /\ x.mw.ok)
               THEN Raise(st1, "IndexError")
               ELSE LET sym == Sub(x.mk.v, 0)
                        fac == Sub(x.mk.v, 1)
                    IN IF sym.err # "" THEN Raise(st1, sym.err)
                       ELSE IF fac.err # "" THEN Raise(st1, fac.err)
                       ELSE Register(st1, a.prefix \o nm.v \o a.suffix, a.prefix \o a.suffix,
                                     nm.v,
                                     PointDict(x.c.v, x.ds.v, x.lw.v, sym.v, fac.v, x.ms.v,
                                               x.mc.v, x.mw.v, a.kwargs),
                                     "point", k)

RECURSIVE PointLoop(_, _, _, _)
PointLoop(st, a, k, n) ==
    IF k >= n \/ st.err # "" THEN st
    ELSE PointLoop(PointStep(st, a, k), a, k + 1, n)

\* lines 243-247
PointCount(a) ==
    StyleCount(<<a.names, a.colors, a.dashes, a.lws, a.markers, a.markersizes,
                 a.markeredgecolors, a.markeredgewidths>>, 1)

make_pointstyles(st, a) ==
    LET st1 == EnsureCategory(EnsureStyleNames(st), a.prefix \o a.suffix)
        n == PointCount(a)
    IN PointLoop(Enter(st1, "point", a, n), a, 0, n)

\* ------------------------------------------------- make_linepointstyles
\* if prefixes[i]: a string that is not empty
Truthy(x) == IsStr(x) /\ x.s # ""

LineArgs(p, a) ==
    [prefix |-> p.s, names |-> a.names, suffix |-> a.suffix, colors |-> a.colors,
     dashes |-> a.dashes, lws |-> a.lws, kwargs |-> a.kwargs]

PointArgs(p, a, dashes, lws) ==
    [prefix |-> p.s, names |-> a.names, suffix |-> a.suffix, colors |-> a.colors,
     dashes |-> dashes, lws |-> lws, markers |-> a.markers,
     markersizes |-> a.markersizes, markeredgecolors |-> a.markeredgecolors,
     markeredgewidths |-> a.markeredgewidths, kwargs |-> a.kwargs]

\* (mutant) the line styles are generated unless the prefix is None
LineUnlessNone(st, p, a) ==
    IF IsStr(p) THEN make_linestyles(st, LineArgs(p, a)) ELSE st

\* lines 299-301: if prefixes[0]: make_linestyles(...)
LineIfGiven(st, p, a) ==
    IF Truthy(p) THEN make_linestyles(st, LineArgs(p, a)) ELSE st

\* lines 302-309: if prefixes[i]: make_pointstyles(...); an exception raised
\* by an earlier generator has ended the call
PointIfGiven(st, p, a, dashes, lws) ==
    IF st.err # "" THEN st
    ELSE IF Truthy(p) THEN make_pointstyles(st, PointArgs(p, a, dashes, lws))
    ELSE st

\* lines 299-309
make_linepointstyles(st, a) ==
    PointIfGiven(PointIfGiven(LineIfGiven(st, a.prefixes[1], a),
                              a.prefixes[2], a, Str("none"), Num(0)),
                 a.prefixes[3], a, a.dashes, a.lws)

\* ------------------------------------------------------ make_fillstyles
\* lines 378-382
RECURSIVE EnsureCategories(_, _, _)
EnsureCategories(st, prefix, suffixes) ==
    IF suffixes = <<>> THEN st
    ELSE EnsureCategories(IF Head(suffixes) = None THEN st
                          ELSE EnsureCategory(st, prefix \o Head(suffixes).s),
                          prefix, Tail(suffixes))

\* lines 406-412; j counts from 0
FillDict(j, c, ec, ew, fa, kwargs) ==
    LET base == Merge([facecolor |-> c], kwargs)
    IN IF j = 0 THEN Merge(base, [edgecolor |-> lighter(c, ec), linewidth |-> ew])
       ELSE IF j = 1 THEN Merge(base, [edgecolor |-> Str("none")])
       ELSE IF j = 2 THEN Merge(base, [edgecolor |-> Str("none"), alpha |-> fa])
       ELSE base

\* lines 400-414: the body of the inner loop for suffix j of style k
FillSuffixStep(st, a, k, name, j) ==
    LET suffix == a.suffixes[j + 1]
    IN IF suffix = None THEN st
       ELSE LET c == Item(a.colors, k)
                ec == Item(a.edgecolors, k)
                ew == Item(a.edgewidths, k)
                fa == Item(a.fillalphas, k)
            IN IF ~(c.ok /\ ec.ok /\ ew.ok /\ fa.ok) THEN Raise(st, "IndexError")
               ELSE Register(st, a.prefix \o name \o suffix.s, a.prefix \o suffix.s, name,
                             FillDict(j, c.v, ec.v, ew.v, fa.v, a.kwargs),
                             IF j = 0 THEN "edge" ELSE IF j = 1 THEN "solid"
                             ELSE IF j = 2 THEN "alpha" ELSE "plain", k)

RECURSIVE FillSuffixLoop(_, _, _, _, _)
FillSuffixLoop(st, a, k, name, j) ==
    IF j >= Len(a.suffixes) \/ st.err # "" THEN st
    ELSE FillSuffixLoop(FillSuffixStep(st, a, k, name, j), a, k, name, j + 1)

\* lines 390-414: the body of the outer loop for index k
FillStep(st, a, k) ==
    LET nm == NameAt(a.names, k)
    IN IF ~nm.ok THEN Raise(st, "IndexError")
       ELSE FillSuffixLoop(AppendName(st, nm.v), a, k, nm.v, 0)

RECURSIVE FillLoop(_, _, _, _)
FillLoop(st, a, k, n) ==
    IF k >= n \/ st.err # "" THEN st
    ELSE FillLoop(FillStep(st, a, k), a, k + 1, n)

\* lines 384-387
FillCount(a) ==
    StyleCount(<<a.names, a.colors, a.edgecolors, a.edgewidths, a.fillalphas>>, 1)

make_fillstyles(st, a) ==
    LET st1 == EnsureCategories(EnsureStyleNames(st), a.prefix, a.suffixes)
        n == FillCount(a)
    IN FillLoop(Enter(st1, "fill", a, n), a, 0, n)

\* ---------------------------------------------------------- plot_styles
Circle == List(<<List(<<Str("o"), Num(1)>>)>>)      \* (('o', 1.0),)

LinePointArgs(prefixes, a, suffix, lws, markers, markersizes) ==
    [prefixes |-> prefixes, names |-> a.names, suffix |-> suffix, colors |-> a.colors,
     dashes |-> a.dashes, lws |-> lws, markers |-> markers, markersizes |-> markersizes,
     markeredgecolors |-> a.mec, markeredgewidths |-> a.mew, kwargs |-> EmptyDict]

\* the next call of plot_styles, unless an earlier one raised
ThenLinePoint(st, a) == IF st.err # "" THEN st ELSE make_linepointstyles(st, a)
ThenFill(st, a) == IF st.err # "" THEN st ELSE make_fillstyles(st, a)

\* lines 481-490
plot_styles(st, a) ==
    ThenFill(
      ThenLinePoint(
        ThenLinePoint(
          ThenLinePoint(st,
            LinePointArgs(<<Str("ls"), Str("ps"), Str("lps")>>, a, "", a.lwthick,
                          a.markers, a.markerlarge)),
          LinePointArgs(<<Str(""), Str("ps"), Str("lps")>>, a, "c", a.lwthick,
                        Circle, a.markerlarge)),
        LinePointArgs(<<Str("ls"), Str("ps"), Str("lps")>>, a, "m", a.lwthin,
                      Circle, a.markersmall)),
      [prefix |-> "fs", names |-> a.names,
       suffixes |-> <<Str(""), Str("s"), Str("a")>>, colors |-> a.colors,
       edgecolors |-> a.mec, edgewidths |-> a.mew, fillalphas |-> a.fillalpha,
       kwargs |-> EmptyDict])

\* --------------------------------------------------------- color_cycler
\* The rc entries plot_params and color_cycler write, at the defaults of the
\* plotting library (mpl.rcdefaults()).  api is the library generation:
\* "legacy" has only axes.color_cycle, "both" has the two entries,
\* "modern" has only axes.prop_cycle.
Cycler(q) == [cycler |-> "color", values |-> q]          \* cycler(color=q)
DefaultCycle == <<Str("b"), Str("g"), Str("r")>>
Default == Str("default")

rcdefaults(api) ==
    [key \in {"figure.facecolor", "font.family", "font.size", "xtick.labelsize",
              "ytick.labelsize", "xtick.direction", "ytick.direction",
              "xtick.major.size", "ytick.major.size", "xtick.minor.size",
              "ytick.minor.size", "legend.fontsize", "grid.color", "grid.linestyle",
              "grid.linewidth", "axes.facecolor", "axes.edgecolor", "axes.linewidth",
              "text.usetex"} |-> Default]
    @@ (IF api \in {"modern", "both"}
        THEN [key \in {"axes.prop_cycle"} |-> Cycler(DefaultCycle)] ELSE <<>>)
    @@ (IF api \in {"legacy", "both"}
        THEN [key \in {"axes.color_cycle"} |-> List(DefaultCycle)] ELSE <<>>)

\* the library generation rc belongs to
ApiOf(rc) ==
    IF "axes.prop_cycle" \in DOMAIN rc
    THEN IF "axes.color_cycle" \in DOMAIN rc THEN "both" ELSE "modern"
    ELSE "legacy"

\* (mutant) names missing from the palette stay in the cycle as None
PaletteColorsAll(palette, colors) ==
    [i \in 1..Len(colors) |->
        IF colors[i] \in DOMAIN palette THEN palette[colors[i]] ELSE None]

\* line 503: [palette[c] for c in colors if c in palette]
PaletteColors(palette, colors) ==
    LET known == SelectSeq(colors, LAMBDA c : c \in DOMAIN palette)
    IN [i \in 1..Len(known) |-> palette[known[i]]]

\* lines 503-508: the rc settings after color_cycler(palette, colors)
color_cycler(rc, palette, colors) ==
    IF "axes.prop_cycle" \in DOMAIN rc
    THEN Put(rc, "axes.prop_cycle", Cycler(PaletteColors(palette, colors)))
    ELSE Put(rc, "axes.color_cycle", List(PaletteColors(palette, colors)))

\* ------------------------------------------------------------ plot_params
\* Numbers of the profile tables are written in hundredths (2.5 is Num(250)).
\* lines 551-573: the rc entries after plot_params; the grid and spine
\* entries are read from lsGrid and lsSpine of the namespace when present.
plot_params(rc, st, p) ==
    LET fixed == [key \in {"figure.facecolor"} |-> p.fig_color]
              @@ (IF p.font_family # None
                  THEN [key \in {"font.family"} |-> p.font_family] ELSE <<>>)
              @@ [key \in {"font.size"} |-> p.font_size]
              @@ [key \in {"xtick.labelsize", "ytick.labelsize"} |-> p.label_size]
              @@ [key \in {"xtick.direction", "ytick.direction"} |-> p.tick_dir]
              @@ [key \in {"xtick.major.size", "ytick.major.size"} |-> p.tick_size]
              @@ [key \in {"xtick.minor.size", "ytick.minor.size"} |->
                      Num((6 * p.tick_size.n) \div 10)]
              @@ [key \in {"legend.fontsize"} |-> p.legend_size]
              @@ [key \in {"axes.facecolor"} |-> p.axes_color]
              @@ [key \in {"text.usetex"} |-> p.latex]
        grid == IF "lsGrid" \in DOMAIN st.ns
                THEN LET d == st.heap[st.ns["lsGrid"].ref]
                     IN [key \in {"grid.color"} |-> d["color"]]
                        @@ [key \in {"grid.linestyle"} |-> d["linestyle"]]
                        @@ [key \in {"grid.linewidth"} |-> d["linewidth"]]
                ELSE <<>>
        spine == IF "lsSpine" \in DOMAIN st.ns
                 THEN LET d == st.heap[st.ns["lsSpine"].ref]
                      IN [key \in {"axes.edgecolor"} |-> d["color"]]
                         @@ [key \in {"axes.linewidth"} |-> d["linewidth"]]
                 ELSE <<>>
    IN fixed @@ grid @@ spine @@ rc

\* ---------------------------------------------------------- the profiles
\* The palettes of colors.py: the color value of a name is written
\* palette:name.
PaletteNames == {"red", "orange", "yellow", "blue", "purple", "magenta", "lightblue",
                 "lightgreen", "green", "darkgreen", "cyan", "pink", "black", "gray",
                 "white"}
colors_vivid == [c \in PaletteNames |-> Str("vivid:" \o c)]
colors_muted == [c \in PaletteNames |-> Str("muted:" \o c)]

\* lines 615-630 (screen), 701-716 (paper), 787-802 (sketch): the same tables
ProfileNames == <<"A1", "A2", "A3", "B1", "B2", "B3", "B4", "C1", "C2", "C3", "C4",
                  "Male", "Female">>
ProfileColors(palette) ==
    List([i \in 1..13 |->
            palette[<<"red", "orange", "yellow", "blue", "purple", "magenta", "lightblue",
                      "lightgreen", "green", "darkgreen", "cyan", "blue", "pink">>[i]]])
ProfileDashes == List([i \in 1..13 |-> Str("-")])
Star(corners, angle) == List(<<Num(corners), Num(1), Num(angle)>>)
ProfileMarkers ==
    List(<<List(<<Str("o"), Num(100)>>), List(<<Str("p"), Num(110)>>),
           List(<<Str("h"), Num(110)>>),
           List(<<Star(3, 60), Num(125)>>), List(<<Star(3, 0), Num(125)>>),
           List(<<Star(3, 90), Num(125)>>), List(<<Star(3, 30), Num(125)>>),
           List(<<Str("s"), Num(90)>>), List(<<Str("D"), Num(85)>>),
           List(<<Str("*"), Num(160)>>), List(<<Star(4, 45), Num(140)>>),
           List(<<Str("o"), Num(100)>>), List(<<Str("o"), Num(100)>>)>>)

\* the next call of a profile function, unless an earlier one raised
ThenLine(st, a) == IF st.err # "" THEN st ELSE make_linestyles(st, a)
ThenPlot(st, a) == IF st.err # "" THEN st ELSE plot_styles(st, a)

Single(name, color, dash, lw, kwargs) ==
    [prefix |-> "ls", names |-> [str |-> <<name>>], suffix |-> "", colors |-> color,
     dashes |-> Str(dash), lws |-> lw, kwargs |-> kwargs]

\* clip_on=False, or clipon=False, as one keyword argument
NoClip(key) == [k \in {key} |-> [b |-> FALSE]]

\* lines 633-640, 719-724, 805-810: plot_styles, then lsSpine, lsGrid and
\* lsMarker.  t holds what the three functions pass differently.
ProfileStyles(st, t) ==
    ThenLine(
      ThenLine(
        ThenLine(
          ThenPlot(st,
            [names |-> List(ProfileNames), colors |-> ProfileColors(t.palette),
             dashes |-> ProfileDashes, markers |-> ProfileMarkers,
             lwthick |-> t.lwthick, lwthin |-> t.lwthin,
             markerlarge |-> t.markerlarge, markersmall |-> t.markersmall,
             mec |-> Num(0), mew |-> t.mew, fillalpha |-> Num(40)]),
          Single("Spine", t.palette["black"], "-", t.lwspines, NoClip(t.clip))),
        Single("Grid", t.palette["gray"], "--", t.lwthin, EmptyDict)),
      Single("Marker", t.palette["black"], "-", t.lwthick, NoClip(t.clip)))

\* lines 611-614 and 633-640
ScreenTable ==
    [palette |-> colors_vivid, lwthick |-> Num(250), lwthin |-> Num(150),
     lwspines |-> Num(100), markerlarge |-> Num(1000), markersmall |-> Num(650),
     mew |-> Num(150), clip |-> "clip_on"]
\* lines 697-700 and 719-724
PaperTable ==
    [palette |-> colors_muted, lwthick |-> Num(170), lwthin |-> Num(80),
     lwspines |-> Num(80), markerlarge |-> Num(650), markersmall |-> Num(400),
     mew |-> Num(80), clip |-> "clipon"]
\* lines 783-786 and 805-810
SketchTable ==
    [palette |-> colors_vivid, lwthick |-> Num(300), lwthin |-> Num(180),
     lwspines |-> Num(180), markerlarge |-> Num(650), markersmall |-> Num(400),
     mew |-> Num(80), clip |-> "clipon"]

\* lines 647-650, 731-734, 818-821: the arguments of plot_params
ScreenParams ==
    [font_size |-> Num(1000), font_family |-> Str("sans-serif"),
     label_size |-> Str("small"), tick_dir |-> Str("out"), tick_size |-> Num(400),
     legend_size |-> Str("x-small"), latex |-> [b |-> FALSE],
     fig_color |-> colors_vivid["gray"], axes_color |-> colors_vivid["white"]]
PaperParams ==
    [font_size |-> Num(1000), font_family |-> Str("sans-serif"),
     label_size |-> Str("small"), tick_dir |-> Str("out"), tick_size |-> Num(250),
     legend_size |-> Str("x-small"), latex |-> [b |-> FALSE],
     fig_color |-> Str("none"), axes_color |-> Str("none")]
SketchParams ==
    [font_size |-> Num(1400), font_family |-> None,
     label_size |-> Str("medium"), tick_dir |-> Str("out"), tick_size |-> Num(600),
     legend_size |-> Str("medium"), latex |-> [b |-> FALSE],
     fig_color |-> colors_vivid["white"], axes_color |-> Str("none")]

CycleColors == <<"blue", "red", "orange", "lightgreen", "magenta", "yellow", "cyan", "pink">>

\* plt.xkcd(): the hand-drawn rendering mode of the plotting library
xkcd(rc) == Put(rc, "path.sketch", Str("xkcd"))

\* lines 646-659, 730-743, 816-830: rcdefaults, (xkcd,) plot_params and
\* color_cycler.  The arrow styles and the parameters of the other plottools
\* modules in between are not kept in rcParams or in the style tables.
ProfileRc(rc, st, sketch, params, palette) ==
    LET rc0 == rcdefaults(ApiOf(rc))
    IN color_cycler(plot_params(IF sketch THEN xkcd(rc0) ELSE rc0, st, params),
                    palette, CycleColors)

screen_style(st) == ProfileStyles(st, ScreenTable)
paper_style(st) == ProfileStyles(st, PaperTable)
sketch_style(st) == ProfileStyles(st, SketchTable)

\* ------------------------------------------------------------------ demo
\* A mode is the word given on the command line, as its characters.
\* sub in mode: sub occurs in mode as a run of consecutive characters
Contains(sub, mode) ==
    \E i \in 0..(Len(mode) - Len(sub)) : SubSeq(mode, i + 1, i + Len(sub)) = sub

\* (mutant) 'line' is tested before 'linep'
DisplayLineFirst(mode) ==
    IF Contains(<<"l", "i", "n", "e">>, mode) THEN "plot_linestyles"
    ELSE IF Contains(<<"l", "i", "n", "e", "p">>, mode) THEN "plot_linepointstyles"
    ELSE IF Contains(<<"p", "o", "i", "n", "t">>, mode) THEN "plot_pointstyles"
    ELSE IF Contains(<<"f", "i", "l", "l">>, mode) THEN "plot_fillstyles"
    ELSE IF Contains(<<"a", "r", "r", "o", "w">>, mode) THEN "plot_arrowstyles"
    ELSE "return"

\* lines 989-1002: the display routine demo calls for mode, "return" for none
Display(mode) ==
    IF Contains(<<"l", "i", "n", "e", "p">>, mode) THEN "plot_linepointstyles"
    ELSE IF Contains(<<"l", "i", "n", "e">>, mode) THEN "plot_linestyles"
    ELSE IF Contains(<<"p", "o", "i", "n", "t">>, mode) THEN "plot_pointstyles"
    ELSE IF Contains(<<"f", "i", "l", "l">>, mode) THEN "plot_fillstyles"
    ELSE IF Contains(<<"a", "r", "r", "o", "w">>, mode) THEN "plot_arrowstyles"
    ELSE "return"

\* lines 988-1003: what demo does after the style function: the figure is
\* made, then the display routine is called and the plot shown, or the two
\* usage lines are printed
demo(mode) ==
    IF Display(mode) = "return"
    THEN <<"subplots", "print unknown option", "print possible options">>
    ELSE <<"subplots", Display(mode), "show">>

\* lines 982-987: the style function demo runs on the module's own namespace
DemoStyle(style, st) ==
    IF style = "sketch" THEN sketch_style(st)
    ELSE IF style = "paper" THEN paper_style(st)
    ELSE screen_style(st)

DemoRc(style, rc, st) ==
    IF style = "sketch" THEN ProfileRc(rc, st, TRUE, SketchParams, colors_vivid)
    ELSE IF style = "paper" THEN ProfileRc(rc, st, FALSE, PaperParams, colors_muted)
    ELSE ProfileRc(rc, st, FALSE, ScreenParams, colors_vivid)

\* ------------------------------------------------------------- inputs
NamePool == <<"A", "m", "s">>
ColorPool == <<Str(Red), Str(Blue), Str("#00FF00")>>
DashPool == <<Str("-"), Str("--"), Str(":")>>
WidthPool == <<Num(1), Num(2), Num(3)>>
MarkerPool == <<List(<<Str("s"), Num(2)>>), List(<<Str("D"), Num(1)>>),
                List(<<Str("p"), Num(3)>>)>>
SizePool == <<Num(5), Num(7), Num(6)>>
LightPool == <<Num(0), Num(2), Num(1)>>
AlphaPool == <<Num(4), Num(6), Num(8)>>

\* the first m elements of a pool (the pool repeated when it is shorter)
Take(q, m) == [i \in 1..m |-> q[((i - 1) % Len(q)) + 1]]
Lst(pool, m) == List(Take(pool, m))

Lit(x) == [str |-> <<x>>]                \* a name without placeholder
Template == [str |-> <<"A", "%d">>]      \* 'A%d'
BarePair == List(<<Str("o"), Num(1)>>)   \* ('o', 1.0), the default of markers

Lens == {1, MaxLen}          \* a sequence of one element, and a longest one

LineBase ==
    [prefix |-> "ls", names |-> Lit("A"), suffix |-> "", colors |-> ColorPool[1],
     dashes |-> DashPool[1], lws |-> WidthPool[2], kwargs |-> EmptyDict]

LineInputs ==
    {[LineBase EXCEPT !.names = x[1], !.suffix = x[2]] :
        x \in {<<Lit("A"), "">>, <<Lit("m"), "">>, <<Lst(NamePool, MaxLen), "m">>,
               <<Lst(NamePool, MaxLen), "">>}}
    \cup {[LineBase EXCEPT !.names = Template, !.colors = Lst(ColorPool, m)] : m \in Lens}
    \cup {[LineBase EXCEPT !.names = nm, !.colors = Lst(ColorPool, MaxLen)] :
            nm \in {Lit("A"), Lst(NamePool, MaxLen - 1), Lst(<<"A">>, MaxLen)}}
    \cup {[LineBase EXCEPT !.names = Lst(NamePool, MaxLen), !.dashes = Lst(DashPool, MaxLen)],
          [LineBase EXCEPT !.names = Template, !.colors = Lst(ColorPool, MaxLen),
                           !.dashes = Lst(DashPool, MaxLen - 1)],
          [LineBase EXCEPT !.kwargs = [zorder |-> Num(1)]]}

PointBase ==
    [prefix |-> "ps", names |-> Lit("A"), suffix |-> "", colors |-> ColorPool[1],
     dashes |-> Str("none"), lws |-> Num(0), markers |-> Circle,
     markersizes |-> SizePool[1], markeredgecolors |-> LightPool[1],
     markeredgewidths |-> WidthPool[1], kwargs |-> EmptyDict]

PointInputs ==
    {[PointBase EXCEPT !.markers = mk] : mk \in {Circle, BarePair, Lst(MarkerPool, MaxLen)}}
    \cup {[PointBase EXCEPT !.names = Lst(NamePool, MaxLen), !.markers = mk] :
            mk \in {Circle, Lst(MarkerPool, MaxLen)}}
    \cup {[PointBase EXCEPT !.markers = Lst(MarkerPool, 1), !.markeredgecolors = Num(1)]}
    \cup {[PointBase EXCEPT !.names = Template, !.colors = Lst(ColorPool, MaxLen),
                            !.markeredgecolors = Lst(LightPool, MaxLen)]}
    \cup {[PointBase EXCEPT !.names = Template, !.markers = Lst(MarkerPool, MaxLen),
                            !.markersizes = x[1], !.markeredgewidths = x[2]] :
            x \in {<<Lst(SizePool, MaxLen), WidthPool[2]>>,
                   <<SizePool[2], Lst(WidthPool, MaxLen)>>}}
    \cup {[PointBase EXCEPT !.names = Lst(NamePool, MaxLen), !.suffix = "m",
                            !.dashes = DashPool[2], !.lws = WidthPool[2],
                            !.kwargs = [zorder |-> Num(1)]]}

Prefixes == {<<a, b, c>> : a \in {Str("ls"), Str("")}, b \in {Str("ps"), Str("")},
                           c \in {Str("lps"), Str("")}}

LinePointBase ==
    [prefixes |-> <<Str("ls"), Str("ps"), Str("lps")>>, names |-> Lit("A"), suffix |-> "",
     colors |-> ColorPool[1], dashes |-> DashPool[2], lws |-> WidthPool[2],
     markers |-> Circle, markersizes |-> SizePool[1], markeredgecolors |-> LightPool[3],
     markeredgewidths |-> WidthPool[1], kwargs |-> EmptyDict]

LinePointInputs ==
    {[LinePointBase EXCEPT !.prefixes = p, !.names = Lst(NamePool, MaxLen),
                           !.markers = Lst(MarkerPool, MaxLen)] : p \in Prefixes}
    \cup {[LinePointBase EXCEPT !.prefixes = <<None, Str("ps"), None>>]}
    \cup {[LinePointBase EXCEPT !.suffix = "m", !.names = Lst(NamePool, MaxLen),
                                !.colors = Lst(ColorPool, m)] : m \in Lens}

FillSuffixes ==
    {<<Str(""), Str("s"), Str("a")>>, <<None, Str("s"), Str("a")>>,
     <<Str(""), None, None>>, <<None, None, None>>}

FillBase ==
    [prefix |-> "fs", names |-> Lit("A"), suffixes |-> <<Str(""), Str("s"), Str("a")>>,
     colors |-> ColorPool[1], edgecolors |-> LightPool[1], edgewidths |-> WidthPool[1],
     fillalphas |-> AlphaPool[1], kwargs |-> EmptyDict]

FillInputs ==
    {[FillBase EXCEPT !.suffixes = sf] : sf \in FillSuffixes}
    \cup {[FillBase EXCEPT !.names = nm] : nm \in {Lit("s"), Template, Lst(NamePool, MaxLen)}}
    \cup {[FillBase EXCEPT !.edgecolors = Num(2), !.kwargs = [zorder |-> Num(1)]]}
    \cup {[FillBase EXCEPT !.names = Template, !.colors = Lst(ColorPool, m),
                           !.edgecolors = Lst(LightPool, m)] : m \in Lens}
    \cup {[FillBase EXCEPT !.names = Template, !.colors = Lst(ColorPool, MaxLen),
                           !.fillalphas = Lst(AlphaPool, MaxLen - 1)],
          [FillBase EXCEPT !.names = Template, !.edgewidths = Lst(WidthPool, MaxLen)],
          [FillBase EXCEPT !.names = Template, !.suffixes = <<None, None, None>>,
                           !.colors = Lst(ColorPool, MaxLen),
                           !.fillalphas = Lst(AlphaPool, MaxLen - 1)]}

PlotBase ==
    [names |-> Lst(NamePool, 1), colors |-> Lst(ColorPool, 1), dashes |-> DashPool[1],
     markers |-> Lst(MarkerPool, 1), lwthick |-> Num(2), lwthin |-> Num(1),
     markerlarge |-> Num(7), markersmall |-> Num(5), mec |-> Num(1), mew |-> Num(1),
     fillalpha |-> Num(4)]

PlotInputs ==
    {[PlotBase EXCEPT !.names = Lst(NamePool, m), !.colors = Lst(ColorPool, m),
                      !.markers = Lst(MarkerPool, m)] : m \in Lens}
    \cup {[PlotBase EXCEPT !.names = Lst(NamePool, MaxLen), !.colors = Lst(ColorPool, MaxLen),
                           !.dashes = Lst(DashPool, MaxLen), !.markers = Circle,
                           !.mec = Num(0)],
          [PlotBase EXCEPT !.mec = Num(2)],
          [PlotBase EXCEPT !.names = Lst(NamePool, MaxLen)],
          [PlotBase EXCEPT !.markers = BarePair]}

\* ------------------------------------------------------------- actions
Start == [ns |-> ns, heap |-> heap, err |-> "", gen |-> <<>>, sub |-> <<>>]

\* The names a call was passed: the list's elements, the literal name, or the
\* template filled with 1..n by each generator the call entered.
PassedOf(names, sub) ==
    IF IsList(names) THEN {names.list[i] : i \in 1..Len(names.list)}
    ELSE IF ~HasPercent(names.str) THEN {Join(names.str)}
    ELSE UNION {{Format(names.str, k) : k \in 1..sub[i].n} : i \in 1..Len(sub)}

\* The category keys of a generator call
CatsOf(e) ==
    IF e.op = "fill"
    THEN {e.a.prefix \o e.a.suffixes[j].s :
            j \in {i \in 1..Len(e.a.suffixes) : e.a.suffixes[i] # None}}
    ELSE {e.a.prefix \o e.a.suffix}

Finish(op, a, st) ==
    /\ ns' = st.ns
    /\ heap' = st.heap
    /\ last' = [op |-> op, a |-> a, err |-> st.err, gen |-> st.gen, sub |-> st.sub]
    /\ passed' = passed \cup {[name |-> x, op |-> op, done |-> st.err = "",
                               ran |-> st.sub # <<>>] : x \in PassedOf(a.names, st.sub)}
    /\ cats' = cats \cup UNION {CatsOf(st.sub[i]) : i \in 1..Len(st.sub)}
    /\ ncalls' = ncalls + 1
    /\ UNCHANGED <<ns2, rcParams, shown, procs>>

Init ==
    /\ ns = <<>>
    /\ heap = <<>>
    /\ last = [op |-> "none", a |-> <<>>, err |-> "", gen |-> <<>>, sub |-> <<>>]
    /\ passed = {}
    /\ cats = {}
    /\ ncalls = 0
    /\ ns2 = <<>>
    /\ rcParams = rcdefaults("modern")
    /\ shown = <<>>
    /\ procs = <<>>

MakeLinestyles ==
    /\ ncalls < MaxCalls
    /\ \E a \in LineInputs : Finish("make_linestyles", a, make_linestyles(Start, a))

MakePointstyles ==
    /\ ncalls < MaxCalls
    /\ \E a \in PointInputs : Finish("make_pointstyles", a, make_pointstyles(Start, a))

MakeLinepointstyles ==
    /\ ncalls < MaxCalls
    /\ \E a \in LinePointInputs :
         Finish("make_linepointstyles", a, make_linepointstyles(Start, a))

MakeFillstyles ==
    /\ ncalls < MaxCalls
    /\ \E a \in FillInputs : Finish("make_fillstyles", a, make_fillstyles(Start, a))

PlotStyles ==
    /\ ncalls < MaxCalls
    /\ \E a \in PlotInputs : Finish("plot_styles", a, plot_styles(Start, a))

Next ==
    \/ MakeLinestyles
    \/ MakePointstyles
    \/ MakeLinepointstyles
    \/ MakeFillstyles
    \/ PlotStyles

Spec == Init /\ [][Next]_vars

\* ------------------------------------------------------------ readings
HasNames == "style_names" \in DOMAIN ns
StyleNames == IF HasNames THEN ns["style_names"].list ELSE <<>>
Occurrences(x, q) == Cardinality({i \in 1..Len(q) : q[i] = x})

\* the keys a style record can hold as rendering attributes
AttrKeys == {"color", "linestyle", "linewidth", "marker", "markersize", "markeredgecolor",
             "markeredgewidth", "facecolor", "edgecolor", "alpha", "zorder"}

\* the attributes of the namespace that hold a dict
DictAttrs == {key \in DOMAIN ns : IsRef(ns[key])}
\* the dict held by attribute key
Obj(key) == heap[ns[key].ref]
\* the attributes of the namespace whose dict has an entry for name
Holding(name) == {key \in DictAttrs : name \in DOMAIN Obj(key)}

Done == last.err = ""
Gen == {last.gen[i] : i \in 1..Len(last.gen)}
GenOf(i) == {g \in Gen : g.call = i}
Subs == 1..Len(last.sub)

AttrArgs(e) ==
    IF e.op = "line" THEN <<e.a.names, e.a.colors, e.a.dashes, e.a.lws>>
    ELSE IF e.op = "point"
    THEN <<e.a.names, e.a.colors, e.a.dashes, e.a.lws, e.a.markers, e.a.markersizes,
           e.a.markeredgecolors, e.a.markeredgewidths>>
    ELSE <<e.a.names, e.a.colors, e.a.edgecolors, e.a.edgewidths, e.a.fillalphas>>

\* 1 if no argument is a sequence longer than one, the maximum length otherwise
Longest(e) ==
    LET lens == {1} \cup {Len(AttrArgs(e)[i].list) :
                            i \in {j \in DOMAIN AttrArgs(e) : IsList(AttrArgs(e)[j])}}
    IN CHOOSE m \in lens : \A x \in lens : x <= m

\* the record of a generated style
Rec(g) == heap[g.id]

\* a scalar argument is the value of its attribute in record g
ScalarIn(x, g, field) == (~IsList(x) /\ field \in DOMAIN Rec(g)) => Rec(g)[field] = x

\* every scalar argument of generator call i has its value in record g
ScalarsApplied(i, g) ==
    LET a == last.sub[i].a
    IN IF last.sub[i].op = "fill"
       THEN /\ ScalarIn(a.colors, g, "facecolor")
            /\ ScalarIn(a.edgewidths, g, "linewidth")
            /\ ScalarIn(a.fillalphas, g, "alpha")
       ELSE /\ ScalarIn(a.colors, g, "color")
            /\ ScalarIn(a.dashes, g, "linestyle")
            /\ ScalarIn(a.lws, g, "linewidth")
            /\ last.sub[i].op = "point" => ScalarIn(a.markeredgewidths, g, "markeredgewidth")

OnePair(markers) ==
    IsList(markers) /\ (Len(markers.list) = 1 \/ ~IsList(markers.list[1]))

\* the pair that was supplied
ThePair(markers) == IF IsList(markers.list[1]) THEN markers.list[1] ELSE markers

\* the attribute arguments of a make_pointstyles call besides markers
BesidesMarkers(e) ==
    <<e.a.names, e.a.colors, e.a.dashes, e.a.lws, e.a.markersizes,
      e.a.markeredgecolors, e.a.markeredgewidths>>

\* the style count of a make_pointstyles call without its markers
CountBesidesMarkers(e) ==
    LET xs == BesidesMarkers(e)
        lens == {1} \cup {Len(xs[i].list) : i \in {j \in DOMAIN xs : IsList(xs[j])}}
    IN CHOOSE m \in lens : \A x \in lens : x <= m

\* no sequence argument besides markers is shorter than n
LongEnough(e, n) ==
    \A j \in DOMAIN BesidesMarkers(e) :
        IsList(BesidesMarkers(e)[j]) => Len(BesidesMarkers(e)[j].list) >= n

\* C4 as stated: in a make_pointstyles call with one marker pair the pair
\* does not change the style count n, and (the other sequences being long
\* enough) each of the n indices gets a record carrying the pair's symbol.
C4_AsStated ==
    \A i \in Subs :
        (last.sub[i].op = "point" /\ OnePair(last.sub[i].a.markers)) =>
            LET e == last.sub[i]
                n == CountBesidesMarkers(e)
            IN /\ e.n = n
               /\ LongEnough(e, n) =>
                     \A k \in 0..(n - 1) : \E g \in GenOf(i) :
                         /\ g.k = k
                         /\ Rec(g).marker = ThePair(e.a.markers).list[1]

\* ------------------------------------------------------------------ C5
\* the last call was make_linestyles for a single name, color, dash and
\* line width, and completed
SingleLine ==
    /\ last.op = "make_linestyles" /\ Done /\ last.sub[1].n = 1
    /\ ~IsList(last.a.colors) /\ ~IsList(last.a.dashes) /\ ~IsList(last.a.lws)

\* C5: after make_linestyles(prefix, name, suffix, color, dash, lw) for a
\* single name the record {color, linestyle=dash, linewidth=lw} is the value
\* of the attribute prefix+name+suffix and of namespace.<prefix+suffix>[name],
\* both the same record; and a name passed to a completed make_linestyles
\* call is in style_names exactly once, whatever generator uses it later.
C5_LineRecord ==
    /\ SingleLine =>
          \A g \in Gen :
              /\ g.key = last.a.prefix \o g.name \o last.a.suffix
              /\ g.cat = last.a.prefix \o last.a.suffix
              /\ g.key \in DOMAIN ns /\ ns[g.key] = Ref(g.id)
              /\ g.cat \in DictAttrs /\ g.name \in DOMAIN Obj(g.cat)
              /\ Obj(g.cat)[g.name] = ns[g.key]
              /\ DOMAIN Rec(g) = {"color", "linestyle", "linewidth"} \cup DOMAIN last.a.kwargs
              /\ Rec(g).color = last.a.colors
              /\ Rec(g).linestyle = last.a.dashes
              /\ Rec(g).linewidth = last.a.lws
    /\ SingleLine => Cardinality(Gen) = 1
    /\ \A p \in passed :
          (p.op = "make_linestyles" /\ p.done) => Occurrences(p.name, StyleNames) = 1

\* make_linestyles generated the line style of "A", then make_pointstyles
\* generated a point style for the same name: the line record is still
\* reached both ways
C5_Witness ==
    /\ last.op = "make_pointstyles" /\ Done
    /\ \E p, q \in passed :
          /\ p.name = "A" /\ q.name = "A"
          /\ p.op = "make_linestyles" /\ p.done
          /\ q.op = "make_pointstyles" /\ q.done
    /\ {"lsA", "ls", "psA", "ps"} \subseteq DOMAIN ns
    /\ Obj("ls")["A"] = ns["lsA"]
    /\ Obj("lsA").linestyle = Str("-")
    /\ Occurrences("A", StyleNames) = 1

\* ------------------------------------------------------------------ C6
\* generator call i of the last call is make_fillstyles with three given
\* suffixes and a single name and color
SingleFill(i) ==
    /\ last.sub[i].op = "fill" /\ last.sub[i].n = 1
    /\ Len(last.sub[i].a.suffixes) = 3
    /\ \A j \in 1..3 : last.sub[i].a.suffixes[j] # None
    /\ ~IsList(last.sub[i].a.colors) /\ ~IsList(last.sub[i].a.edgecolors)
    /\ ~IsList(last.sub[i].a.edgewidths) /\ ~IsList(last.sub[i].a.fillalphas)

\* record g holds exactly the attributes keys and the keyword arguments kw
HoldsOnly(g, keys, kw) ==
    /\ DOMAIN Rec(g) = keys \cup DOMAIN kw
    /\ \A x \in DOMAIN kw : Rec(g)[x] = kw[x]

\* C6 as stated: make_fillstyles with three suffixes and a single name and
\* color generates three records with the same facecolor and the same extra
\* keyword attributes; the first has besides only edgecolor (derived from the
\* face color) and linewidth, the second only edgecolor 'none', the third
\* only edgecolor 'none' and alpha, the given fill alpha.
C6_AsStated ==
    Done => \A i \in Subs : SingleFill(i) =>
        LET a == last.sub[i].a
        IN /\ {g.kind : g \in GenOf(i)} = {"edge", "solid", "alpha"}
           /\ Cardinality(GenOf(i)) = 3
           /\ \A g \in GenOf(i) :
                 /\ Rec(g).facecolor = a.colors
                 /\ g.kind = "edge" =>
                       /\ HoldsOnly(g, {"facecolor", "edgecolor", "linewidth"}, a.kwargs)
                       /\ Rec(g).edgecolor = lighter(a.colors, a.edgecolors)
                       /\ Rec(g).linewidth = a.edgewidths
                 /\ g.kind = "solid" =>
                       /\ HoldsOnly(g, {"facecolor", "edgecolor"}, a.kwargs)
                       /\ Rec(g).edgecolor = Str("none")
                 /\ g.kind = "alpha" =>
                       /\ HoldsOnly(g, {"facecolor", "edgecolor", "alpha"}, a.kwargs)
                       /\ Rec(g).edgecolor = Str("none")
                       /\ Rec(g).alpha = a.fillalphas

\* ------------------------------------------------------------------ C7
\* a prefix is given: neither None nor the empty string
Given(p) == p # None /\ p # Str("")

\* the generators make_linepointstyles is to run for its prefixes, in order
Toggled(prefixes) ==
    SelectSeq(<<[op |-> "line", j |-> 1], [op |-> "point", j |-> 2],
                [op |-> "point", j |-> 3]>>,
              LAMBDA x : Given(prefixes[x.j]))

\* the attributes a make_linepointstyles call with arguments a may bind:
\* style_names, and for each given prefix its category and its styles
Touched(a, sub) ==
    {"style_names"} \cup
    UNION {{a.prefixes[j].s \o a.suffix} \cup
           {a.prefixes[j].s \o nm \o a.suffix : nm \in PassedOf(a.names, sub)} :
           j \in {i \in 1..3 : Given(a.prefixes[i])}}

Eleven == {"ls", "lsm", "ps", "psc", "psm", "lps", "lpsc", "lpsm", "fs", "fss", "fsa"}
Circular == {"psc", "lpsc"}

\* the symbol of the marker plot_styles was given for style k
OwnMarker(markers, k) ==
    IF Len(markers.list) > 1 THEN markers.list[k + 1].list[1] ELSE markers.list[1].list[1]

\* C8 as stated: after plot_styles on a fresh namespace every name has a
\* record in exactly the eleven categories, and there is no 'lsc'; major
\* records carry lwthick, markerlarge and the name's own marker, circular
\* records lwthick and marker 'o', minor records lwthin, markersmall and
\* marker 'o'; ps, psc and psm records have linestyle 'none' and linewidth 0.
C8_AsStated ==
    (last.op = "plot_styles" /\ Done /\ ncalls = 1 /\ IsList(last.a.markers.list[1])) =>
        /\ "lsc" \notin DOMAIN ns
        /\ \A i \in 1..Len(last.a.names.list) : Holding(last.a.names.list[i]) = Eleven
        /\ \A g \in Gen :
              LET r == Rec(g)
              IN /\ g.cat \in Eleven
                 /\ (g.cat \in {"ps", "psc", "psm"}) =>
                        r.linestyle = Str("none") /\ r.linewidth = Num(0)
                 /\ (g.cat \in {"ls", "lps", "lpsc"}) => r.linewidth = last.a.lwthick
                 /\ (g.cat \in {"lsm", "lpsm"}) => r.linewidth = last.a.lwthin
                 /\ (g.cat \in {"ps", "lps"}) =>
                        /\ r.markersize = last.a.markerlarge
                        /\ r.marker = OwnMarker(last.a.markers, g.k)
                 /\ (g.cat \in Circular) =>
                        r.markersize = last.a.markerlarge /\ r.marker = Str("o")
                 /\ (g.cat \in {"psm", "lpsm"}) =>
                        r.markersize = last.a.markersmall /\ r.marker = Str("o")

\* ------------------------------------------------------------------ C9
\* the value of an attribute argument for style k
ArgAt(x, k) == IF IsList(x) THEN x.list[k + 1] ELSE x

\* the edge color of a generated point or with-edge fill record
EdgeColor(g) == IF g.kind = "point" THEN Rec(g).markeredgecolor ELSE Rec(g).edgecolor
\* its face color
FaceColor(g) == IF g.kind = "point" THEN Rec(g).color ELSE Rec(g).facecolor
\* the lightness it was generated with
Lightness(g) ==
    IF g.kind = "point" THEN ArgAt(last.sub[g.call].a.markeredgecolors, g.k)
    ELSE ArgAt(last.sub[g.call].a.edgecolors, g.k)

\* C9: the edge color of every record generated by make_pointstyles and of
\* every with-edge record generated by make_fillstyles is lighter() of the
\* face color colors[k] of the same index k and the lightness of that index:
\* the face color itself for lightness 1, white for 0, black for 2.
C9_EdgeColor ==
    \A g \in {x \in Gen : x.kind \in {"point", "edge"}} :
        /\ FaceColor(g) = ArgAt(last.sub[g.call].a.colors, g.k)
        /\ EdgeColor(g) = lighter(FaceColor(g), Lightness(g))
        /\ Lightness(g) = Num(1) => EdgeColor(g) = FaceColor(g)
        /\ Lightness(g) = Num(0) => EdgeColor(g) = Str(White)
        /\ Lightness(g) = Num(2) => EdgeColor(g) = Str(Black)

\* make_pointstyles has generated two styles of different colors, one with a
\* white edge (lightness 0) and one with a black edge (lightness 2)
C9_Witness ==
    /\ last.op = "make_pointstyles" /\ Done
    /\ \E g, h \in Gen :
          /\ g.kind = "point" /\ h.kind = "point" /\ g.k = 0 /\ h.k = 1
          /\ Rec(g).color # Rec(h).color
          /\ Lightness(g) = Num(0) /\ Rec(g).markeredgecolor = Str(White)
          /\ Lightness(h) = Num(2) /\ Rec(h).markeredgecolor = Str(Black)

\* ----------------------------------------------------------------- C10
\* the factor of the marker of style k
FactorAt(markers, k) ==
    IF Len(markers.list) > 1 THEN markers.list[k + 1].list[2] ELSE markers.list[1].list[2]

\* C10 as stated: the markeredgewidth of record k of make_pointstyles is
\* the factor of its marker times markeredgewidths[k], and its markersize is
\* markersizes[k].
C10_AsStated ==
    \A g \in {x \in Gen : x.kind = "point"} :
        LET a == last.sub[g.call].a
        IN /\ Rec(g).markeredgewidth =
                 Num(FactorAt(a.markers, g.k).n * ArgAt(a.markeredgewidths, g.k).n)
           /\ Rec(g).markersize = ArgAt(a.markersizes, g.k)

\* ----------------------------------------------------------------- C12
\* the lengths of the attribute sequences of generator call e that are
\* shorter than its style count
ShortLengths(e) ==
    {Len(AttrArgs(e)[j].list) :
        j \in {i \in DOMAIN AttrArgs(e) :
                  IsList(AttrArgs(e)[i]) /\ Len(AttrArgs(e)[i].list) < e.n}}

\* the same, a markers sequence of one pair not counted: it is used for
\* every index (line 263)
ShortIndexed(e) ==
    {Len(AttrArgs(e)[j].list) :
        j \in {i \in DOMAIN AttrArgs(e) :
                  /\ IsList(AttrArgs(e)[i]) /\ Len(AttrArgs(e)[i].list) < e.n
                  /\ ~(e.op = "point" /\ i = 5 /\ Len(AttrArgs(e)[i].list) = 1)}}

Least(S) == CHOOSE m \in S : \A x \in S : m <= x

\* generator call e indexes its attribute sequences: make_fillstyles does so
\* only under a given suffix (lines 399-405)
Indexes(e) == e.op = "fill" => \E j \in 1..Len(e.a.suffixes) : e.a.suffixes[j] # None

\* markers is a sequence of pairs
PairList(e) == e.op = "point" => IsList(e.a.markers.list[1])

\* generator call i failed with an index failure at index k: in each of its
\* categories it registered a record for every index below k and for no other,
\* and the key of each such record is still bound to a record of the call
FailedAt(i, k) ==
    /\ i = Len(last.sub) /\ last.err = "IndexError"
    /\ \A c \in CatsOf(last.sub[i]) : {g.k : g \in {x \in GenOf(i) : x.cat = c}} = 0..(k - 1)
    /\ \A g \in GenOf(i) :
          /\ g.k < k
          /\ g.key \in DOMAIN ns
          /\ \E h \in GenOf(i) : h.key = g.key /\ ns[g.key] = Ref(h.id)

Numerals == <<"1", "2", "3", "4", "5", "6", "7", "8", "9">>

\* the template q with its placeholder replaced by the number k+1
Numbered(q, k) == Join([j \in 1..Len(q) |-> IF q[j] = "%d" THEN Numerals[k + 1] ELSE q[j]])

\* the suffix of the category of a generated style
SuffixOf(g) ==
    IF g.kind \in {"line", "point"} THEN last.sub[g.call].a.suffix
    ELSE last.sub[g.call].a.suffixes[IF g.kind = "edge" THEN 1
                                     ELSE IF g.kind = "solid" THEN 2 ELSE 3].s

\* C13, the record of index k: it is named names[k] when names is a list and
\* by the template with k+1 for the placeholder when names is a string
\* holding one, and its key is prefix+name+suffix.
NamedByIndex ==
    \A g \in Gen :
        LET a == last.sub[g.call].a
        IN /\ IsList(a.names) => g.name = a.names.list[g.k + 1]
           /\ (~IsList(a.names) /\ HasPercent(a.names.str)) =>
                  g.name = Numbered(a.names.str, g.k)
           /\ g.key = a.prefix \o g.name \o SuffixOf(g)

IsRecord(d) == "color" \in DOMAIN d \/ "facecolor" \in DOMAIN d

\* C17 as stated: a generator call changes no dict that was a style record
\* before it; a key it generates is bound to a newly built record; every
\* attribute it does not generate keeps its value; and an entry of a category
\* mapping is kept unless the call generates that name in that category.
C17_AsStated ==
    [][LET gen == {last'.gen[x] : x \in 1..Len(last'.gen)}
       IN /\ \A id \in 1..Len(heap) :
                /\ IsRecord(heap[id]) => heap'[id] = heap[id]
                /\ ~IsRecord(heap[id]) =>
                      \A name \in DOMAIN heap[id] :
                          /\ name \in DOMAIN heap'[id]
                          /\ \/ heap'[id][name] = heap[id][name]
                             \/ \E g \in gen : g.name = name /\ ns'[g.cat] = Ref(id)
          /\ \A g \in gen : g.id > Len(heap)
          /\ \A key \in DOMAIN ns :
                \/ key \in DOMAIN ns' /\ ns'[key] = ns[key]
                \/ key = "style_names"
                \/ \E g \in gen : g.key = key /\ key \in DOMAIN ns' /\ ns'[key].ref > Len(heap)
    ]_vars

\* ----------------------------------------------------------------- C20
\* the prefixes and suffixes the generators are called with
PrefixesUsed == {"ls", "ps", "lps", "fs"}
SuffixesUsed == {"", "m", "c", "s", "a"}

\* the keys prefix+name+suffix of name in the category with key c
StyleKeys(c, name) ==
    {p \o name \o x : p \in {q \in PrefixesUsed : \E y \in SuffixesUsed : q \o y = c},
                       x \in {y \in SuffixesUsed : \E q \in PrefixesUsed : q \o y = c}}

\* all calls so far have completed
AllDone == \A p \in passed : p.done

\* C20 as stated: after completed generator calls every attribute
\* prefix+suffix used as a category holds a mapping from names to records
\* (not a style record), and for every name in it the attribute
\* prefix+name+suffix exists and is the same record as the entry.
C20_AsStated ==
    AllDone => \A c \in cats :
        /\ c \in DictAttrs
        /\ ~IsRecord(Obj(c))
        /\ \A name \in DOMAIN Obj(c) :
              /\ IsRef(Obj(c)[name]) /\ IsRecord(heap[Obj(c)[name].ref])
              /\ \A key \in StyleKeys(c, name) :
                    key \in DOMAIN ns /\ ns[key] = Obj(c)[name]

\* ----------------------------------------------------------------- C18
\* s is a prefix of t
IsPrefix(s, t) == Len(s) <= Len(t) /\ SubSeq(t, 1, Len(s)) = s

\* C18: style_names is append-only: in every step of every generator call
\* (completed or failed) the list before is a prefix of the list after, so no
\* name is removed or moved, and an existing list is kept, not reset.
C18_AppendOnly ==
    [][/\ HasNames => HasNames'
       /\ IsPrefix(StyleNames, StyleNames')
       /\ \A i \in 1..Len(StyleNames) : StyleNames'[i] = StyleNames[i]
    ]_vars

\* a second call has appended a name behind the names of the first call
C18_Witness ==
    /\ ncalls = 2 /\ last.err = ""
    /\ Len(StyleNames) >= 2
    /\ \E x \in 1..Len(last.gen) :
          /\ last.gen[x].name = StyleNames[Len(StyleNames)]
          /\ \A y \in 1..Len(last.gen) : last.gen[y].name # StyleNames[1]

\* ------------------------------------------- the profile specification
\* The profile functions run into one of two namespaces; the library is of
\* any of the three generations.
Apis == {"legacy", "both", "modern"}

ProfileInit ==
    /\ ns = <<>> /\ ns2 = <<>> /\ heap = <<>>
    /\ last = [op |-> "none", a |-> <<>>, err |-> "", gen |-> <<>>, sub |-> <<>>]
    /\ passed = {} /\ cats = {} /\ ncalls = 0
    /\ \E api \in Apis : rcParams = rcdefaults(api)
    /\ shown = <<>> /\ procs = <<>>

\* (mutant) every call works on the first namespace's attributes
StartInFirst(i) ==
    [ns |-> ns, heap |-> heap, err |-> "", gen |-> <<>>, sub |-> <<>>]

\* the call state at the start of a call on namespace number i
StartIn(i) ==
    [ns |-> IF i = 1 THEN ns ELSE ns2, heap |-> heap, err |-> "", gen |-> <<>>, sub |-> <<>>]

\* the outcome st of the styles of profile function op on namespace number i,
\* then its rc settings
FinishProfile(op, i, st, sketch, params, palette) ==
    /\ IF i = 1 THEN ns' = st.ns /\ ns2' = ns2 ELSE ns2' = st.ns /\ ns' = ns
    /\ heap' = st.heap
    /\ rcParams' = IF st.err = "" THEN ProfileRc(rcParams, st, sketch, params, palette)
                   ELSE rcParams
    /\ last' = [op |-> op, a |-> [namespace |-> i], err |-> st.err, gen |-> st.gen,
                sub |-> <<>>]
    /\ ncalls' = ncalls + 1
    /\ UNCHANGED <<passed, cats, shown, procs>>

ScreenStyle ==
    /\ ncalls < MaxCalls
    /\ \E i \in {1, 2} : FinishProfile("screen_style", i, screen_style(StartIn(i)), FALSE,
                                        ScreenParams, colors_vivid)

PaperStyle ==
    /\ ncalls < MaxCalls
    /\ \E i \in {1, 2} : FinishProfile("paper_style", i, paper_style(StartIn(i)), FALSE,
                                        PaperParams, colors_muted)

SketchStyle ==
    /\ ncalls < MaxCalls
    /\ \E i \in {1, 2} : FinishProfile("sketch_style", i, sketch_style(StartIn(i)), TRUE,
                                        SketchParams, colors_vivid)

ProfileNext ==
    \/ ScreenStyle
    \/ PaperStyle
    \/ SketchStyle

ProfileSpec == ProfileInit /\ [][ProfileNext]_vars

\* ----------------------------------------------------------------- C11
\* a value with the dicts it refers to written out
RECURSIVE Deep(_, _)
Deep(h, v) ==
    IF IsRef(v) THEN [dict |-> [k \in DOMAIN h[v.ref] |-> Deep(h, h[v.ref][k])]] ELSE v

\* a registry by content: names list, category mappings and records under every key
Snapshot(h, n) == [key \in DOMAIN n |-> Deep(h, n[key])]

\* the dicts a namespace holds, directly or in its category mappings
RECURSIVE Reach(_, _)
Reach(h, v) ==
    IF IsRef(v) THEN {v.ref} \cup UNION {Reach(h, h[v.ref][k]) : k \in DOMAIN h[v.ref]}
    ELSE {}
Dicts(h, n) == UNION {Reach(h, n[key]) : key \in DOMAIN n}

ProfileOps == {"screen_style", "paper_style", "sketch_style"}

RECURSIVE Shape(_, _, _)
Shape(h, v, depth) ==
    IF IsRef(v)
    THEN IF depth = 0 THEN [keys |-> DOMAIN h[v.ref]]
         ELSE [dict |-> [k \in DOMAIN h[v.ref] |-> Shape(h, h[v.ref][k], depth - 1)]]
    ELSE IF IsList(v) THEN [len |-> Len(v.list)]
    ELSE [value |-> TRUE]

\* the keys of a registry and, per record, the keys of its attributes
KeySets(h, n) == [key \in DOMAIN n |-> Shape(h, n[key], 1)]

\* C14 as stated: after two profile functions have each run into one of the
\* two fresh namespaces, the registries have the same keys and every record
\* has the same attribute keys.
C14_AsStated ==
    (ncalls = 2 /\ last.op \in ProfileOps /\ ns # <<>> /\ ns2 # <<>>) =>
        KeySets(heap, ns) = KeySets(heap, ns2)

\* -------------------------------------------- the color cycle specification
\* color_cycler is called with a palette and a list of color names, some of
\* them missing from the palette.
ColorNamePool == {"red", "blue", "teal"}
Palettes == {[c \in {"red", "blue"} |-> colors_vivid[c]], [c \in {"red"} |-> colors_muted[c]]}
ColorLists == UNION {[1..m -> ColorNamePool] : m \in 0..MaxLen}

ColorCycler ==
    /\ ncalls < MaxCalls
    /\ \E palette \in Palettes, colors \in ColorLists :
          /\ rcParams' = color_cycler(rcParams, palette, colors)
          /\ last' = [op |-> "color_cycler", a |-> [palette |-> palette, colors |-> colors],
                      err |-> "", gen |-> <<>>, sub |-> <<>>]
    /\ ncalls' = ncalls + 1
    /\ UNCHANGED <<ns, ns2, heap, passed, cats, shown, procs>>

CyclerNext ==
    \/ ColorCycler

CyclerSpec == ProfileInit /\ [][CyclerNext]_vars

\* ----------------------------------------------------------------- C16
\* the positions of colors whose name is a key of palette
Known(palette, colors) == {i \in 1..Len(colors) : colors[i] \in DOMAIN palette}

\* q holds the palette values of the known names of colors, in their order
IsCycleOf(q, palette, colors) ==
    /\ Len(q) = Cardinality(Known(palette, colors))
    /\ \A i \in Known(palette, colors) :
          q[Cardinality({j \in Known(palette, colors) : j <= i})] = palette[colors[i]]

\* C16: a call of color_cycler(palette, colors) writes one rc entry and
\* leaves every other one as it was: axes.prop_cycle where the library has
\* it (also when it has axes.color_cycle too), axes.color_cycle otherwise;
\* the entry then holds the palette values of the names of colors that are
\* keys of palette, in the order of colors, the other names left out.
C16_CycleSet ==
    [][last'.op = "color_cycler" /\ ncalls' = ncalls + 1 =>
         LET modern == "axes.prop_cycle" \in DOMAIN rcParams
             key == IF modern THEN "axes.prop_cycle" ELSE "axes.color_cycle"
             new == rcParams'[key]
         IN /\ DOMAIN rcParams' = DOMAIN rcParams
            /\ \A k \in DOMAIN rcParams \ {key} : rcParams'[k] = rcParams[k]
            /\ IF modern THEN new = Cycler(new.values) ELSE new = List(new.list)
            /\ IsCycleOf(IF modern THEN new.values ELSE new.list,
                         last'.a.palette, last'.a.colors)
    ]_vars

\* a cycle was set from a list that also names a color missing from the
\* palette, in a library that has both entries
C16_Witness ==
    /\ last.op = "color_cycler"
    /\ last.a.colors = <<"blue", "teal">> /\ DOMAIN last.a.palette = {"red", "blue"}
    /\ ApiOf(rcParams) = "both"
    /\ rcParams["axes.prop_cycle"] = Cycler(<<colors_vivid["blue"]>>)
    /\ rcParams["axes.color_cycle"] = List(DefaultCycle)

\* ---------------------------------------------- the demo specification
\* demo(style, mode) is run once in a process (lines 1006-1010): the
\* namespace is the module's own, fresh at the start.
DemoStyles == {"screen", "paper", "sketch", "print"}
Modes ==
    {<<"l", "i", "n", "e">>, <<"p", "o", "i", "n", "t">>,
     <<"l", "i", "n", "e", "p", "o", "i", "n", "t">>, <<"f", "i", "l", "l">>,
     <<"a", "r", "r", "o", "w">>,
     <<"l", "i", "n", "e", "p">>, <<"l", "i", "n", "e", "s">>,
     <<"r", "e", "f", "i", "l", "l">>, <<"p", "o", "i", "n", "t", "l", "i", "n", "e">>,
     <<"h", "e", "l", "p">>, <<"L", "i", "n", "e">>, <<"l", "i", "n">>, <<>>}

FinishDemo(style, mode, st) ==
    /\ ns' = st.ns
    /\ heap' = st.heap
    /\ rcParams' = DemoRc(style, rcParams, st)
    /\ shown' = demo(mode)
    /\ last' = [op |-> "demo", a |-> [style |-> style, mode |-> mode], err |-> st.err,
                gen |-> <<>>, sub |-> <<>>]
    /\ ncalls' = ncalls + 1
    /\ UNCHANGED <<ns2, passed, cats, procs>>

Demo ==
    /\ ncalls < MaxCalls /\ shown = <<>>
    /\ \E style \in DemoStyles, mode \in Modes :
         FinishDemo(style, mode, DemoStyle(style, Start))

DemoNext ==
    \/ Demo

DemoSpec == ProfileInit /\ [][DemoNext]_vars

\* ----------------------------------------------------------------- C15
TheModes ==
    [line |-> <<"l", "i", "n", "e">>, point |-> <<"p", "o", "i", "n", "t">>,
     linepoint |-> <<"l", "i", "n", "e", "p", "o", "i", "n", "t">>,
     fill |-> <<"f", "i", "l", "l">>, arrow |-> <<"a", "r", "r", "o", "w">>]
FiveModes == {TheModes[m] : m \in DOMAIN TheModes}

Plotted(routine) == shown = <<"subplots", routine, "show">>
UsageOnly == shown = <<"subplots", "print unknown option", "print possible options">>
Ran == last.op = "demo"

\* C15 as stated: each of the five modes goes to its own display routine and
\* the plot is shown; every other mode prints the usage message and returns,
\* nothing plotted or shown, no error.
C15_AsStated ==
    Ran => /\ last.a.mode = TheModes.line => Plotted("plot_linestyles")
           /\ last.a.mode = TheModes.point => Plotted("plot_pointstyles")
           /\ last.a.mode = TheModes.linepoint => Plotted("plot_linepointstyles")
           /\ last.a.mode = TheModes.fill => Plotted("plot_fillstyles")
           /\ last.a.mode = TheModes.arrow => Plotted("plot_arrowstyles")
           /\ last.a.mode \notin FiveModes => UsageOnly /\ last.err = ""

\* the words of TheModes that occur in mode
WordsIn(mode) == {m \in DOMAIN TheModes : Contains(TheModes[m], mode)}

\* C15, amended: a mode is recognised by the words it contains.  Each of the
\* five modes goes to its own display routine (linepoint to
\* plot_linepointstyles) and the plot is shown.  A mode that contains none of
\* line, point, fill, arrow prints the usage message and returns with nothing
\* plotted or shown and no error.  Any other mode is displayed like the first
\* of linep, line, point, fill, arrow that occurs in it.
C15_Dispatch ==
    Ran => /\ last.a.mode = TheModes.line => Plotted("plot_linestyles")
           /\ last.a.mode = TheModes.point => Plotted("plot_pointstyles")
           /\ last.a.mode = TheModes.linepoint => Plotted("plot_linepointstyles")
           /\ last.a.mode = TheModes.fill => Plotted("plot_fillstyles")
           /\ last.a.mode = TheModes.arrow => Plotted("plot_arrowstyles")
           /\ WordsIn(last.a.mode) = {} => UsageOnly /\ last.err = ""
           /\ WordsIn(last.a.mode) # {} =>
                IF Contains(<<"l", "i", "n", "e", "p">>, last.a.mode)
                THEN Plotted("plot_linepointstyles")
                ELSE IF "line" \in WordsIn(last.a.mode) THEN Plotted("plot_linestyles")
                ELSE IF "point" \in WordsIn(last.a.mode) THEN Plotted("plot_pointstyles")
                ELSE IF "fill" \in WordsIn(last.a.mode) THEN Plotted("plot_fillstyles")
                ELSE Plotted("plot_arrowstyles")

\* demo was run with mode linepoint, which contains line, point and linep
C15_Witness == Ran /\ last.a.mode = TheModes.linepoint /\ Plotted("plot_linepointstyles")

\* ------------------------------------- the interleaving specification
\* Two calls of make_linestyles on one namespace, run by two threads with no
\* lock: a thread can be suspended between any two statements, so between a
\* test and the write that depends on it.  A thread is at one of
\*   "idle"      not called yet
\*   "names?"    line 134   if not hasattr(namespace, 'style_names')
\*   "names!"    line 135   namespace.style_names = []
\*   "cat?"      line 137   if not hasattr(namespace, ln)
\*   "cat!"      line 138   setattr(namespace, ln, {})
\*   "in?"       line 153   if name not in namespace.style_names
\*   "in!"       line 154   namespace.style_names.append(name)
\*   "setattr"   line 160   setattr(namespace, sn, ld)
\*   "put"       line 161   getattr(namespace, ln)[name] = ld
\*   "done"      returned
\* holding in test the outcome of its last test, in ld the dict it built, and
\* in alone whether no other call was in progress at any of its steps.
Threads == {1, 2}

RaceNames == {<<"A">>, <<"m">>, Take(NamePool, MaxLen)}
RaceInputs == {[LineBase EXCEPT !.names = List(q)] : q \in RaceNames}

Idle == [pc |-> "idle", a |-> LineBase, k |-> 0, test |-> FALSE, ld |-> 0, alone |-> TRUE]

RaceInit ==
    /\ ns = <<>> /\ ns2 = <<>> /\ heap = <<>>
    /\ last = [op |-> "none", a |-> <<>>, err |-> "", gen |-> <<>>, sub |-> <<>>]
    /\ passed = {} /\ cats = {} /\ ncalls = 0
    /\ rcParams = rcdefaults("modern")
    /\ shown = <<>>
    /\ procs = [i \in Threads |-> Idle]

InProgress(i) == procs[i].pc \notin {"idle", "done"}

\* thread i moves to pc, holding test, ld and k
Move(i, pc, test, ld, k) ==
    procs' = [procs EXCEPT ![i] = [@ EXCEPT !.pc = pc, !.test = test, !.ld = ld, !.k = k,
                 !.alone = @ /\ \A j \in Threads \ {i} : ~InProgress(j)]]

\* the start of the loop body for index k, or the return
AtIndex(i, k) == IF k < LineCount(procs[i].a) THEN "in?" ELSE "done"

NameOf(i) == NameAt(procs[i].a.names, procs[i].k).v
LnOf(i) == procs[i].a.prefix \o procs[i].a.suffix

\* (mutant) the test finds every name missing from the list
MissingAlways(name, q) == TRUE

\* line 153: name not in namespace.style_names
Missing(name, q) == ~InList(name, q)

Call(i) ==
    /\ procs[i].pc = "idle"
    /\ \E a \in RaceInputs :
         procs' = [procs EXCEPT ![i] = [@ EXCEPT !.pc = "names?", !.a = a,
                      !.alone = \A j \in Threads \ {i} : ~InProgress(j)]]
    /\ ncalls' = ncalls + 1
    /\ UNCHANGED <<ns, heap, last, passed, cats, ns2, rcParams, shown>>

TestNames(i) ==
    /\ procs[i].pc = "names?"
    /\ Move(i, "names!", "style_names" \notin DOMAIN ns, 0, 0)
    /\ UNCHANGED <<ns, heap, last, passed, cats, ncalls, ns2, rcParams, shown>>

CreateNames(i) ==
    /\ procs[i].pc = "names!"
    /\ ns' = IF procs[i].test THEN Put(ns, "style_names", List(<<>>)) ELSE ns
    /\ Move(i, "cat?", FALSE, 0, 0)
    /\ UNCHANGED <<heap, last, passed, cats, ncalls, ns2, rcParams, shown>>

TestCategory(i) ==
    /\ procs[i].pc = "cat?"
    /\ Move(i, "cat!", LnOf(i) \notin DOMAIN ns, 0, 0)
    /\ UNCHANGED <<ns, heap, last, passed, cats, ncalls, ns2, rcParams, shown>>

CreateCategory(i) ==
    /\ procs[i].pc = "cat!"
    /\ IF procs[i].test
       THEN /\ heap' = Append(heap, EmptyDict)
            /\ ns' = Put(ns, LnOf(i), Ref(Len(heap) + 1))
       ELSE UNCHANGED <<ns, heap>>
    /\ Move(i, AtIndex(i, 0), FALSE, 0, 0)
    /\ cats' = cats \cup {LnOf(i)}
    /\ UNCHANGED <<last, passed, ncalls, ns2, rcParams, shown>>

TestName(i) ==
    /\ procs[i].pc = "in?"
    /\ Move(i, "in!", Missing(NameOf(i), ns["style_names"].list), 0, procs[i].k)
    /\ UNCHANGED <<ns, heap, last, passed, cats, ncalls, ns2, rcParams, shown>>

AppendTheName(i) ==
    /\ procs[i].pc = "in!"
    /\ ns' = IF procs[i].test
             THEN [ns EXCEPT !["style_names"] = List(Append(@.list, NameOf(i)))]
             ELSE ns
    /\ Move(i, "setattr", FALSE, 0, procs[i].k)
    /\ UNCHANGED <<heap, last, passed, cats, ncalls, ns2, rcParams, shown>>

SetStyle(i) ==
    /\ procs[i].pc = "setattr"
    /\ LET a == procs[i].a
           k == procs[i].k
       IN heap' = Append(heap, LineDict(Item(a.colors, k).v, Item(a.dashes, k).v,
                                        Item(a.lws, k).v, a.kwargs))
    /\ ns' = Put(ns, procs[i].a.prefix \o NameOf(i) \o procs[i].a.suffix, Ref(Len(heap) + 1))
    /\ Move(i, "put", FALSE, Len(heap) + 1, procs[i].k)
    /\ UNCHANGED <<last, passed, cats, ncalls, ns2, rcParams, shown>>

PutStyle(i) ==
    /\ procs[i].pc = "put"
    /\ heap' = [heap EXCEPT ![ns[LnOf(i)].ref] = Put(@, NameOf(i), Ref(procs[i].ld))]
    /\ Move(i, AtIndex(i, procs[i].k + 1), FALSE, 0, procs[i].k + 1)
    /\ passed' = passed \cup {[name |-> NameOf(i), op |-> "make_linestyles",
                               done |-> TRUE, ran |-> TRUE]}
    /\ UNCHANGED <<ns, last, cats, ncalls, ns2, rcParams, shown>>

RaceNext ==
    \E i \in Threads :
        \/ Call(i)
        \/ TestNames(i)
        \/ CreateNames(i)
        \/ TestCategory(i)
        \/ CreateCategory(i)
        \/ TestName(i)
        \/ AppendTheName(i)
        \/ SetStyle(i)
        \/ PutStyle(i)

RaceSpec == RaceInit /\ [][RaceNext]_vars

\* ----------------------------------------------------------------- C19
\* the calls so far ran one after the other
Serialized == \A i \in Threads : procs[i].alone
Returned == \A i \in Threads : procs[i].pc = "done"

\* style_names holds a name twice
Twice == \E x \in 1..Len(StyleNames) : Occurrences(StyleNames[x], StyleNames) > 1

\* a style whose record was entered in its category is bound to its key but
\* is not in the category now: the category was replaced by an empty mapping
Lost ==
    \E p \in passed :
        /\ ("ls" \o p.name) \in DOMAIN ns
        /\ "ls" \in DOMAIN ns
        /\ p.name \notin DOMAIN heap[ns["ls"].ref]

\* C19: while generator calls on one namespace run one after the other,
\* style_names never holds a name twice and no category mapping that has
\* received a record is replaced; with a call suspended between a test and
\* its write both can happen (C19_Witness).
C19_SerializedSafe == Serialized => ~Twice /\ ~Lost

\* both calls have returned, style_names holds a name twice and a record
\* entered in the category ls is gone from it
C19_Witness == Returned /\ Twice /\ Lost /\ ~Serialized

\* ----------------------------------------------------------------- C21
\* the names argument gives the same name to more than one index: a literal
\* name without placeholder, or a list that repeats a name
SameNameAgain(names) ==
    IF IsList(names)
    THEN \E i, j \in 1..Len(names.list) : i < j /\ names.list[i] = names.list[j]
    ELSE ~HasPercent(names.str)

\* the record generated last for the name of g is that of g
LastOfName(g) == \A h \in Gen : h.name = g.name => h.k <= g.k

\* C21: after a completed call of make_linestyles or make_pointstyles with
\* n > 1 whose names argument gives one name to several indices, the
\* iterations of that name wrote one key: the key and the category entry of
\* the name both hold the record generated for the last index with that name
\* (index n-1 for a literal name), which has the color of that index, and the
\* name is in style_names once.
C21_LastWins ==
    (last.op \in {"make_linestyles", "make_pointstyles"} /\ Done /\ Len(last.sub) = 1
       /\ last.sub[1].n > 1 /\ SameNameAgain(last.a.names)) =>
        \A g \in Gen :
            /\ Occurrences(g.name, StyleNames) = 1
            /\ LastOfName(g) =>
                  /\ ns[g.key] = Ref(g.id)
                  /\ Obj(g.cat)[g.name] = Ref(g.id)
                  /\ ~IsList(last.a.names) => g.k = last.sub[1].n - 1
                  /\ IsList(last.a.colors) => Rec(g).color = last.a.colors.list[g.k + 1]
            /\ ~LastOfName(g) => ns[g.key] # Ref(g.id) /\ Obj(g.cat)[g.name] # Ref(g.id)

\* make_linestyles has completed with a list that repeats the name A and
\* MaxLen colors; the record of A has the last color
C21_Witness ==
    /\ last.op = "make_linestyles" /\ Done
    /\ IsList(last.a.names) /\ SameNameAgain(last.a.names)
    /\ last.sub[1].n = MaxLen /\ Cardinality(Gen) = MaxLen
    /\ Obj("ls")["A"] = ns["lsA"]
    /\ heap[ns["lsA"].ref].color = ColorPool[MaxLen]

\* ----------------------------------------------------------------- C22
\* generator call e fails at an index its names argument still covers: the
\* shortest sequence it indexes is shorter than n and is not names
ShortOfAttribute(e) ==
    /\ PairList(e) /\ Indexes(e)
    /\ ShortIndexed(e) # {}
    /\ IsList(e.a.names) => Len(e.a.names.list) > Least(ShortIndexed(e))

\* the name of the index at which generator call e fails
FailedName(e) == NameAt(e.a.names, Least(ShortIndexed(e))).v

\* C22: a generator call that fails at index k because an attribute sequence
\* other than names is too short leaves the name of index k in style_names
\* and registers no record for index k; if that name was not in style_names
\* before the call and no lower index of the call has it, it is the last
\* element of style_names and no category mapping holds it.
C22_NameWithoutRecord ==
    [][(last'.sub # <<>> /\ ncalls' = ncalls + 1
          /\ ShortOfAttribute(last'.sub[Len(last'.sub)])) =>
         LET e == last'.sub[Len(last'.sub)]
             k == Least(ShortIndexed(e))
             name == FailedName(e)
             gen == {last'.gen[x] : x \in 1..Len(last'.gen)}
         IN /\ last'.err = "IndexError"
            /\ InList(name, StyleNames')
            /\ \A g \in gen : g.call = Len(last'.sub) => g.k < k
            /\ (~InList(name, StyleNames) /\ \A g \in gen : g.name # name) =>
                  /\ StyleNames'[Len(StyleNames')] = name
                  /\ \A id \in 1..Len(heap') : name \notin DOMAIN heap'[id]
    ]_vars

\* a call has failed at index 1 and the name of index 1 is the last element
\* of style_names with no record in any category mapping
C22_Witness ==
    /\ last.err = "IndexError" /\ last.sub # <<>>
    /\ ShortOfAttribute(last.sub[Len(last.sub)])
    /\ Least(ShortIndexed(last.sub[Len(last.sub)])) = 1
    /\ StyleNames[Len(StyleNames)] = FailedName(last.sub[Len(last.sub)])
    /\ Holding(FailedName(last.sub[Len(last.sub)])) = {}
    /\ Gen # {}

\* ----------------------------------------------------------------- C23
\* C23: when an operation that has completed is run again with the same
\* arguments on the same namespace and completes, the namespace is by content
\* what it was after the first run: the same style_names, the same keys, the
\* same names in every category mapping and equal records; the records of
\* the second run are new dicts.
C23_Idempotent ==
    [][(ncalls' = ncalls + 1 /\ last.op # "none" /\ last'.op = last.op /\ last'.a = last.a
          /\ last.err = "" /\ last'.err = "") =>
         /\ StyleNames' = StyleNames
         /\ DOMAIN ns' = DOMAIN ns
         /\ Snapshot(heap', ns') = Snapshot(heap, ns)
         /\ \A x \in 1..Len(last'.gen) : last'.gen[x].id > Len(heap)
    ]_vars

\* plot_styles has completed twice on one namespace for one name: behind the
\* eleven category mappings the dicts are two equal generations of records
C23_Witness ==
    /\ ncalls = 2 /\ last.op = "plot_styles" /\ Done
    /\ last.a.names = Lst(NamePool, 1)
    /\ Cardinality(Gen) = 11
    /\ Len(heap) = 11 + 2 * 11
    /\ \A g \in Gen : \E id \in 1..Len(heap) :
          id \notin {h.id : h \in Gen} /\ heap[id] = heap[g.id]
    /\ Len(StyleNames) = 1
====
